---------------------------- MODULE Spec2Model ----------------------------
(***************************************************************************)
(* The filesystem-backed transcription queue of queue/worker.py and        *)
(* queue/enqueue.py.                                                       *)
(*                                                                         *)
(* The state is the filesystem (four directories mapping names to inodes,  *)
(* the inodes' size and modification time, the artifacts of output/), the  *)
(* position of the worker inside run_worker / get_pending_files /          *)
(* process_file / is_file_ready / save_result, and the position of each    *)
(* producer inside enqueue_files / shutil.copy2.  Other processes (the     *)
(* producers, a process that removes inbox files, the operator's Ctrl+C)   *)
(* interleave with the worker between any two of its filesystem calls.     *)
(***************************************************************************)
EXTENDS Integers, Sequences, FiniteSets, TLC

(***************************************************************************)
(* Bounds of the model.                                                    *)
(***************************************************************************)
\* inodes that producers may create in inbox over a run
MaxFiles == 2
\* upsets over a run: an I/O error injected into the worker (a stat, a write
\* or a move that raises) or an inbox entry removed by another process
MaxFaults == 1
\* inodes that producers may create over a run of LiveSpec
LiveFiles == 1

(***************************************************************************)
(* File names.  A name is kept as a string; Stem and Ext give what         *)
(* pathlib's .stem and the characters after the last dot are.              *)
(***************************************************************************)
Names == {"a.mp3", "b.wav", "a.WAV"}

Stem(n) ==
    CASE n = "a.mp3"  -> "a"
      [] n = "b.wav"  -> "b"
      [] n = "a.WAV"  -> "a"
      [] n = "c.Mp3"  -> "c"
      [] n = "n.txt"  -> "n"

Ext(n) ==
    CASE n = "a.mp3"  -> <<".", "m", "p", "3">>
      [] n = "b.wav"  -> <<".", "w", "a", "v">>
      [] n = "a.WAV"  -> <<".", "W", "A", "V">>
      [] n = "c.Mp3"  -> <<".", "M", "p", "3">>
      [] n = "n.txt"  -> <<".", "t", "x", "t">>

Stems == {Stem(n) : n \in Names}

\* The files a producer may be asked to enqueue: the path given, its last
\* component (Path(file_path).name), its size in blocks, its mtime.  Two of
\* them, in different directories, share a name; one of the two is empty.
Sources ==
    { [path |-> "x/a.mp3", name |-> "a.mp3", size |-> 2, mtime |-> 1],
      [path |-> "x/b.wav", name |-> "b.wav", size |-> 1, mtime |-> 2],
      [path |-> "x/a.WAV", name |-> "a.WAV", size |-> 1, mtime |-> 2],
      [path |-> "y/b.wav", name |-> "b.wav", size |-> 0, mtime |-> 2] }

\* A file being written carries the time of the write, later than any source's.
NowTime == 1 + CHOOSE m \in {s.mtime : s \in Sources} :
                  \A s \in Sources : s.mtime <= m

Ids == 1..MaxFiles
NoFile == 0
Producers == {"p1"}

AUDIO_EXTENSIONS ==
    { <<".", "m", "p", "3">>, <<".", "w", "a", "v">>, <<".", "f", "l", "a", "c">>,
      <<".", "m", "4", "a">>, <<".", "o", "g", "g">>, <<".", "w", "e", "b", "m">>,
      <<".", "m", "p", "4">>, <<".", "m", "p", "e", "g">>, <<".", "m", "p", "g", "a">> }

UpperChar(c) ==
    CASE c = "a" -> "A" [] c = "b" -> "B" [] c = "c" -> "C" [] c = "e" -> "E"
      [] c = "f" -> "F" [] c = "g" -> "G" [] c = "l" -> "L" [] c = "m" -> "M"
      [] c = "o" -> "O" [] c = "p" -> "P" [] c = "v" -> "V" [] c = "w" -> "W"
      [] c = "t" -> "T" [] c = "x" -> "X"
      [] OTHER -> c

\* str.upper()
Upper(e) == [i \in DOMAIN e |-> UpperChar(e[i])]

VARIABLES
    inbox,      \* inbox/  : name -> inode (NoFile: no such entry)
    done,       \* done/   : name -> inode
    failed,     \* failed/ : name -> inode
    inode,      \* inode -> [size, mtime]; size -1: not created yet
    output,     \* output/ : stem -> [txt, json], each "none", "part" or a job name
    prod,       \* producer -> its position in enqueue_files
    pc,         \* the worker's position
    listing,    \* get_pending_files: the paths globbed / filtered so far
    batch,      \* run_worker: pending, each entry [name, outcome of its visit]
    idx,        \* run_worker: index in batch of the job being visited
    obs,        \* is_file_ready: <<first sample, second sample>> (-1: none)
    ready,      \* is_file_ready's return value
    err,        \* process_file: the exception caught, "none" if none
    written,    \* the artifacts save_result wrote (or began) in this visit
    budget,     \* what is left of MaxFiles and MaxFaults
    call        \* save_result run by itself: its arguments, the clock and
                \* the text of the files of output/ (NoCall otherwise)

vars == <<inbox, done, failed, inode, output, prod, pc, listing, batch, idx,
          obs, ready, err, written, budget, call>>

fsVars == <<inbox, done, failed, inode, output>>
workerVars == <<pc, listing, batch, idx, obs, ready, err, written>>


NoSrc == [path |-> "", name |-> "", size |-> 0, mtime |-> 0]
Idle == [pc |-> "idle", src |-> NoSrc, ino |-> NoFile, off |-> 0]
NewInode == [size |-> -1, mtime |-> 0]
NoCall == [runs |-> 0]

Exists(dir, n) == dir[n] # NoFile
Allocated(i) == inode[i].size >= 0
FreeId == CHOOSE i \in Ids : ~Allocated(i) /\ \A j \in Ids : j < i => Allocated(j)
Max(a, b) == IF a >= b THEN a ELSE b

(***************************************************************************)
(* setup_directories has run, the model is loaded, nothing is queued.      *)
(***************************************************************************)
InitWith(files) ==
    /\ inbox = [n \in Names |-> NoFile]
    /\ done = [n \in Names |-> NoFile]
    /\ failed = [n \in Names |-> NoFile]
    /\ inode = [i \in Ids |-> NewInode]
    /\ output = [s \in Stems |-> [txt |-> "none", json |-> "none"]]
    /\ prod = [p \in Producers |-> Idle]
    /\ pc = "poll"
    /\ listing = {}
    /\ batch = <<>>
    /\ idx = 0
    /\ obs = <<-1, -1>>
    /\ ready = FALSE
    /\ err = "none"
    /\ written = {}
    /\ budget = [files |-> files, faults |-> MaxFaults]
    /\ call = NoCall

Init == InitWith(MaxFiles)

(***************************************************************************)
(* enqueue.py: enqueue_files, one file_path of the loop at a time, and     *)
(* shutil.copy2 inside it, which is not atomic: it opens (creates or       *)
(* truncates) the destination, writes the data, then copies the source's   *)
(* times onto the destination path.                                        *)
(***************************************************************************)
\* dest.exists(), line 32
AlreadyQueued(n) == Exists(inbox, n)

\* lines 23-36: the source exists and is a regular file; a queued name is
\* skipped; otherwise copy2 begins with copyfile's open(dst, "wb"), which
\* creates the entry
EnqOpen(p, s) ==
    /\ prod[p].pc = "idle"
    /\ budget.files > 0
    /\ IF AlreadyQueued(s.name)
         THEN UNCHANGED <<prod, budget, inbox, inode>>
         ELSE LET i == FreeId
              IN /\ inbox' = [inbox EXCEPT ![s.name] = i]
                 /\ inode' = [inode EXCEPT ![i] = [size |-> 0, mtime |-> NowTime]]
                 /\ prod' = [prod EXCEPT ![p] = [pc |-> "write", src |-> s,
                                                 ino |-> i, off |-> 0]]
                 /\ budget' = [budget EXCEPT !.files = @ - 1]
    /\ UNCHANGED <<call, done, failed, output, workerVars>>

\* line 36, copyfile's write loop: one block through the open descriptor,
\* wherever the inode is linked by now
EnqWrite(p) ==
    /\ prod[p].pc = "write"
    /\ prod[p].off < prod[p].src.size
    /\ LET i == prod[p].ino IN
          inode' = [inode EXCEPT ![i] = [size |-> Max(@.size, prod[p].off + 1),
                                         mtime |-> NowTime]]
    /\ prod' = [prod EXCEPT ![p].off = @ + 1]
    /\ UNCHANGED <<call, inbox, done, failed, output, workerVars, budget>>

\* line 36, copy2's copystat(src, dst), by path: raises when the destination
\* is gone and enqueue_files ends; lines 37: "Queued"
EnqStat(p) ==
    /\ prod[p].pc = "write"
    /\ prod[p].off = prod[p].src.size
    /\ LET n == prod[p].src.name IN
          IF Exists(inbox, n)
            THEN inode' = [inode EXCEPT ![inbox[n]].mtime = prod[p].src.mtime]
            ELSE UNCHANGED inode
    /\ prod' = [prod EXCEPT ![p] = Idle]
    /\ UNCHANGED <<call, inbox, done, failed, output, workerVars, budget>>

Writing(i) == \E p \in Producers : prod[p].pc = "write" /\ prod[p].ino = i

(***************************************************************************)
(* Another process removes (or moves away) an entry of inbox.              *)
(***************************************************************************)
ExternalRemove(n) ==
    /\ budget.faults > 0
    /\ Exists(inbox, n)
    /\ inbox' = [inbox EXCEPT ![n] = NoFile]
    /\ budget' = [budget EXCEPT !.faults = @ - 1]
    /\ UNCHANGED <<call, done, failed, inode, output, prod, workerVars>>


(***************************************************************************)
(* worker.py: get_pending_files.                                           *)
(***************************************************************************)
\* lines 55-57: INBOX_DIR.glob("*" + ext) and glob("*" + ext.upper()); the
\* match of a pattern against a name compares characters as they are
Globbed(n) ==
    \E e \in AUDIO_EXTENSIONS : Ext(n) = e \/ Ext(n) = Upper(e)

\* a sort that puts the newest first (as with reverse=True)
InOrderNewestFirst(k1, k2) == k1 >= k2

\* line 62: the order sorted() gives two keys
InOrder(k1, k2) == k1 <= k2

\* line 62: the lists sorted(files, key=st_mtime) may return for the set
\* files; the listing order of equal keys is the directory's, so any
Sorted(files) ==
    { s \in [1..Cardinality(files) -> files] :
        /\ \A i, j \in DOMAIN s : i # j => s[i] # s[j]
        /\ \A i, j \in DOMAIN s : i < j =>
              InOrder(inode[inbox[s[i]]].mtime, inode[inbox[s[j]]].mtime) }

Entry(n) == [name |-> n, outcome |-> "pending"]

\* lines 151 and 144-145, the poll interval is over (or run_worker has just
\* begun), and lines 54-57
ScanList ==
    /\ pc = "poll"
    /\ listing' = {n \in DOMAIN inbox : Exists(inbox, n) /\ Globbed(n)}
    /\ pc' = "scan_filter"
    /\ UNCHANGED <<call, fsVars, prod, batch, idx, obs, ready, err, written, budget>>

\* lines 59-61; with an empty list run_worker sleeps (lines 146, 151)
ScanFilter ==
    /\ pc = "scan_filter"
    /\ listing' = {n \in listing : Exists(inbox, n)}
    /\ pc' = IF listing' = {} THEN "poll" ELSE "scan_sort"
    /\ UNCHANGED <<call, fsVars, prod, batch, idx, obs, ready, err, written, budget>>

\* line 62: f.stat() of a path that is gone raises FileNotFoundError, which
\* nothing in run_worker catches; otherwise lines 145-148 start the batch
ScanSort ==
    /\ pc = "scan_sort"
    /\ IF \E n \in listing : ~Exists(inbox, n)
         THEN /\ pc' = "crashed"
              /\ UNCHANGED <<batch, idx>>
         ELSE /\ \E s \in Sorted(listing) :
                    batch' = [i \in DOMAIN s |-> Entry(s[i])]
              /\ idx' = 1
              /\ pc' = "p_exists"
    /\ listing' = {}
    /\ UNCHANGED <<call, fsVars, prod, obs, ready, err, written, budget>>

(***************************************************************************)
(* worker.py: process_file, is_file_ready, transcribe_file, save_result.   *)
(***************************************************************************)
cur == batch[idx].name

\* process_file returns: the visit is over
Return(outcome) ==
    /\ batch' = [batch EXCEPT ![idx].outcome = outcome]
    /\ pc' = "returned"

\* the skip without its return: process_file goes on to the engine
SkipFallsThrough == pc' = "engine" /\ UNCHANGED batch

\* lines 101-102 and 107-108: "Skipping" is printed and process_file returns
Skip == Return("skipped")

\* is_file_ready with its comparison of the two sizes inverted
ReadyResultInverted(s1, s2) == s1 >= 0 /\ s2 >= 0 /\ s2 # s1 /\ s1 > 0

\* is_file_ready without the comparison of the two sizes
ReadyResultNoCompare(s1, s2) == s1 >= 0 /\ s2 >= 0 /\ s1 > 0

\* is_file_ready answering true as soon as both sizes could be read
ReadyResultAnySize(s1, s2) == s1 >= 0 /\ s2 >= 0

\* is_file_ready accepting an empty file (>= 0 for > 0)
ReadyResultEmptyOk(s1, s2) == s1 >= 0 /\ s2 >= 0 /\ s2 = s1 /\ s1 >= 0

\* line 47, with -1 for a sample that could not be taken (lines 40, 45, 48)
ReadyResult(s1, s2) == s1 >= 0 /\ s2 >= 0 /\ s2 = s1 /\ s1 > 0

\* lines 100-108 and 40-44: the job is gone, or is_file_ready takes its first
\* sample, where an OSError ends the check.  (A file that goes between lines
\* 100 and 43 is skipped like one gone before line 100.)
PExists ==
    /\ pc = "p_exists"
    /\ IF ~Exists(inbox, cur)
         THEN /\ Skip
              /\ UNCHANGED <<obs, ready, budget>>
         ELSE \/ /\ obs' = <<inode[inbox[cur]].size, -1>>
                 /\ pc' = "r_stat2"
                 /\ UNCHANGED <<batch, ready, budget>>
              \/ /\ budget.faults > 0
                 /\ budget' = [budget EXCEPT !.faults = @ - 1]
                 /\ obs' = <<-1, -1>>
                 /\ ready' = ReadyResult(-1, -1)
                 /\ Skip
    /\ UNCHANGED <<call, fsVars, prod, listing, idx, err, written>>

\* lines 45-49 and 106-108: the second sample, after the settle interval
RStat2 ==
    /\ pc = "r_stat2"
    /\ \/ /\ Exists(inbox, cur)
          /\ obs' = <<obs[1], inode[inbox[cur]].size>>
          /\ UNCHANGED budget
       \/ /\ ~Exists(inbox, cur) \/ budget.faults > 0
          /\ budget' = IF Exists(inbox, cur)
                         THEN [budget EXCEPT !.faults = @ - 1] ELSE budget
          /\ obs' = <<obs[1], -1>>
    /\ ready' = ReadyResult(obs'[1], obs'[2])
    /\ IF ready'
         THEN pc' = "engine" /\ UNCHANGED batch
         ELSE Skip
    /\ UNCHANGED <<call, fsVars, prod, listing, idx, err, written>>

\* lines 111 and 65-72: the engine, which is opaque, returns a result or
\* raises, whatever the state of the file
Transcribe ==
    /\ pc = "engine"
    /\ \/ pc' = "save_txt" /\ UNCHANGED err
       \/ pc' = "fail_move" /\ err' = "engine"
    /\ obs' = <<-1, -1>>
    /\ UNCHANGED <<call, fsVars, prod, listing, batch, idx, ready, written, budget>>

\* one base for the artifacts of every job
OutputBaseShared(n) == CHOOSE s \in Stems : TRUE

\* line 77: output_base = OUTPUT_DIR / audio_path.stem
OutputBase(n) == Stem(n)

\* a save_result that writes the text file only
WriteTextOnly(stem, kind, how) ==
    CASE how = "ok" /\ kind = "txt" -> [output EXCEPT ![stem][kind] = cur]
      [] how = "cut" /\ kind = "txt" -> [output EXCEPT ![stem][kind] = "part"]
      [] OTHER -> output

\* what write_text leaves of a file: all of it, or, when it raises, either
\* the file as it was or a file cut short
WriteText(stem, kind, how) ==
    CASE how = "ok"   -> [output EXCEPT ![stem][kind] = cur]
      [] how = "cut"  -> [output EXCEPT ![stem][kind] = "part"]
      [] how = "none" -> output

\* lines 77-81
SaveTxt ==
    /\ pc = "save_txt"
    /\ \E how \in {"ok", "cut", "none"} :
          /\ how # "ok" => budget.faults > 0
          /\ output' = WriteText(OutputBase(cur), "txt", how)
          /\ written' = IF how = "none" THEN written ELSE written \cup {"txt"}
          /\ IF how = "ok"
               THEN pc' = "save_json" /\ UNCHANGED <<err, budget>>
               ELSE /\ pc' = "fail_move"
                    /\ err' = "writer"
                    /\ budget' = [budget EXCEPT !.faults = @ - 1]
    /\ UNCHANGED <<call, inbox, done, failed, inode, prod, listing, batch, idx, obs,
                   ready>>

\* lines 84-94
SaveJson ==
    /\ pc = "save_json"
    /\ \E how \in {"ok", "cut", "none"} :
          /\ how # "ok" => budget.faults > 0
          /\ output' = WriteText(OutputBase(cur), "json", how)
          /\ written' = IF how = "none" THEN written ELSE written \cup {"json"}
          /\ IF how = "ok"
               THEN pc' = "done_move" /\ UNCHANGED <<err, budget>>
               ELSE /\ pc' = "fail_move"
                    /\ err' = "writer"
                    /\ budget' = [budget EXCEPT !.faults = @ - 1]
    /\ UNCHANGED <<call, inbox, done, failed, inode, prod, listing, batch, idx, obs,
                   ready>>

\* shutil.move(src, dst) of a file within one filesystem: os.rename, which
\* replaces an entry of the same name in the destination
Moved(dir, n) == [dir EXCEPT ![n] = inbox[n]]

\* a copy in place of the move: the source stays
SourceKept(n) == inbox

\* ... and the source's entry is gone
SourceGone(n) == [inbox EXCEPT ![n] = NoFile]

\* lines 114-117; a move that raises is caught at line 118
DoneMove ==
    /\ pc = "done_move"
    /\ IF ~Exists(inbox, cur)
         THEN /\ Return("gone")
              /\ UNCHANGED <<inbox, done, err, budget>>
         ELSE \/ /\ done' = Moved(done, cur)
                 /\ inbox' = SourceGone(cur)
                 /\ Return("done")
                 /\ UNCHANGED <<err, budget>>
              \/ /\ budget.faults > 0
                 /\ budget' = [budget EXCEPT !.faults = @ - 1]
                 /\ err' = "move"
                 /\ pc' = "fail_move"
                 /\ UNCHANGED <<inbox, done, batch>>
    /\ UNCHANGED <<call, failed, inode, output, prod, listing, idx, obs, ready,
                   written>>

\* the exception of the move leaves process_file and run_worker
MoveFailedRaises == pc' = "crashed" /\ UNCHANGED batch

\* lines 126-127: the exception of the move into failed/ is caught and
\* reported, and process_file returns
MoveFailed == Return("stuck")

\* lines 118-127
FailMove ==
    /\ pc = "fail_move"
    /\ IF ~Exists(inbox, cur)
         THEN /\ Return("gone")
              /\ UNCHANGED <<inbox, failed, budget>>
         ELSE \/ /\ failed' = Moved(failed, cur)
                 /\ inbox' = SourceGone(cur)
                 /\ Return("failed")
                 /\ UNCHANGED budget
              \/ /\ budget.faults > 0
                 /\ budget' = [budget EXCEPT !.faults = @ - 1]
                 /\ MoveFailed
                 /\ UNCHANGED <<inbox, failed>>
    /\ UNCHANGED <<call, done, inode, output, prod, listing, idx, obs, ready, err,
                   written>>

(***************************************************************************)
(* worker.py: run_worker.                                                  *)
(***************************************************************************)
\* lines 148-151: the next job of the batch, or the sleep after the last
NextJob ==
    /\ pc = "returned"
    /\ IF idx < Len(batch)
         THEN /\ idx' = idx + 1
              /\ pc' = "p_exists"
              /\ UNCHANGED batch
         ELSE /\ idx' = 0
              /\ batch' = <<>>
              /\ pc' = "poll"
    /\ obs' = <<-1, -1>>
    /\ ready' = FALSE
    /\ err' = "none"
    /\ written' = {}
    /\ UNCHANGED <<call, fsVars, prod, listing, budget>>

\* lines 152-153: KeyboardInterrupt, raised wherever the worker is; the
\* process ends and its locals with it
Interrupt ==
    /\ pc \notin {"stopped", "crashed"}
    /\ pc' = "stopped"
    /\ listing' = {}
    /\ batch' = <<>>
    /\ idx' = 0
    /\ obs' = <<-1, -1>>
    /\ ready' = FALSE
    /\ err' = "none"
    /\ written' = {}
    /\ UNCHANGED <<call, fsVars, prod, budget>>

Scan == ScanList \/ ScanFilter \/ ScanSort
ProcessFile ==
    PExists \/ RStat2 \/ Transcribe \/ SaveTxt \/ SaveJson
        \/ DoneMove \/ FailMove
Worker == Scan \/ ProcessFile \/ NextJob

Producer ==
    \E p \in Producers :
        \/ \E s \in Sources : EnqOpen(p, s)
        \/ EnqWrite(p)
        \/ EnqStat(p)

Remover == \E n \in Names : ExternalRemove(n)

Next == Worker \/ Producer \/ Remover \/ Interrupt

Spec == Init /\ [][Next]_vars


(***************************************************************************)
(* The poll loop keeps running: the worker, unless it has ended, takes its *)
(* next step.  Nothing is assumed of the producers or of other processes.  *)
(***************************************************************************)
LiveSpec == InitWith(LiveFiles) /\ [][Next]_vars /\ WF_vars(Worker)

(***************************************************************************)
(* What the claims speak of.                                               *)
(***************************************************************************)
Halted == pc \in {"stopped", "crashed"}
InInbox(i) == \E n \in Names : inbox[n] = i
InDone(i) == \E n \in Names : done[n] = i
InFailed(i) == \E n \in Names : failed[n] = i
\* a recognized extension, whatever its case
Recognized(n) == \E e \in AUDIO_EXTENSIONS : Upper(Ext(n)) = Upper(e)
\* inode i sits in inbox under a recognized name and its copy is complete
Settled(i) ==
    /\ \E n \in Names : inbox[n] = i /\ Recognized(n)
    /\ ~Writing(i)
\* inode i has been routed to exactly one terminal directory
Routed(i) == (InDone(i) /\ ~InFailed(i)) \/ (InFailed(i) /\ ~InDone(i))
\* inode i was created and is in none of the three directories
Gone(i) == Allocated(i) /\ ~InInbox(i) /\ ~InDone(i) /\ ~InFailed(i)

(***************************************************************************)
(* C1.  Every file in inbox with a recognized extension and a stable size  *)
(* is eventually moved to exactly one of done or failed, as long as the    *)
(* poll loop keeps running (and nobody else takes the file away).          *)
(* As stated it fails for an empty file, which is_file_ready never passes. *)
(***************************************************************************)
C1_EventuallyRouted ==
    \A i \in Ids : Settled(i) ~> (Routed(i) \/ Gone(i) \/ Halted)

\* C1 as amended: the same for a file of stable size strictly greater than
\* zero; the moves and stats of the model fail only finitely often.
C1_NonEmptyEventuallyRouted ==
    \A i \in Ids :
        (Settled(i) /\ inode[i].size > 0) ~> (Routed(i) \/ Gone(i) \/ Halted)

\* C1 witness: a non-empty settled file has been visited and moved to done.
C1_Witness ==
    /\ pc = "returned"
    /\ batch[idx].outcome = "done"
    /\ done[cur] # NoFile
    /\ inode[done[cur]].size > 0
    /\ ~Writing(done[cur])


(***************************************************************************)
(* C2.  A name is never in two of inbox, done and failed at once.          *)
(* Refuted: enqueue_files looks for the name in inbox only, so a name      *)
(* already in done or failed is queued again.                              *)
(***************************************************************************)
Holding(n) == {d \in {"inbox", "done", "failed"} :
                  \/ d = "inbox" /\ Exists(inbox, n)
                  \/ d = "done" /\ Exists(done, n)
                  \/ d = "failed" /\ Exists(failed, n)}

C2_OneDirectory == \A n \in Names : Cardinality(Holding(n)) <= 1

(***************************************************************************)
(* C3.  A file stored in done or failed stays there as it is (it does not  *)
(* go back to inbox and no move replaces it), and no step of the worker    *)
(* makes a file of inbox disappear.                                        *)
(* Refuted: the move into done or failed is a rename, which replaces the   *)
(* file stored there under the same name.                                  *)
(***************************************************************************)
C3_NothingLost ==
    [][ /\ \A n \in Names :
              /\ Exists(done, n) => done'[n] = done[n]
              /\ Exists(failed, n) => failed'[n] = failed[n]
        /\ Worker =>
              \A i \in Ids :
                  InInbox(i) => (InInbox(i) \/ InDone(i) \/ InFailed(i))'
      ]_vars

(***************************************************************************)
(* C4.  A visit that ends with the job moved to failed has created no      *)
(* output artifact.                                                        *)
(* Refuted: save_result may raise after the text file is written, and the  *)
(* move into done may raise after both files are.                          *)
(***************************************************************************)
VisitOver(outcome) == pc = "returned" /\ batch[idx].outcome = outcome

C4_FailedLeavesNoRecord == VisitOver("failed") => written = {}

(***************************************************************************)
(* C5.  Whenever a file enters done, it is by the move of process_file,    *)
(* and output/<stem>.txt and output/<stem>.json of that job were both      *)
(* written in full earlier in the same visit.                              *)
(***************************************************************************)
SavedBoth ==
    /\ written = {"txt", "json"}
    /\ output[Stem(cur)] = [txt |-> cur, json |-> cur]

C5_RecordBeforeDone ==
    [][ done' # done => pc = "done_move" /\ SavedBoth /\ output' = output ]_vars

C5_Witness == VisitOver("done") /\ SavedBoth /\ done[cur] # NoFile

(***************************************************************************)
(* C6.  When the engine raises and the move into failed succeeds, the      *)
(* visit ends with the file in failed and in neither inbox nor done, and   *)
(* with nothing written to output.                                         *)
(***************************************************************************)
C6_EngineFailureRouted ==
    [][ (pc = "fail_move" /\ err = "engine" /\ VisitOver("failed")')
          => /\ \E i \in Ids :
                    /\ inbox[cur] = i
                    /\ failed'[cur] = i
                    /\ ~InInbox(i)'
                    /\ ~InDone(i)'
             /\ written' = {}
             /\ output' = output
      ]_vars

C6_Witness ==
    /\ VisitOver("failed")
    /\ err = "engine"
    /\ Exists(failed, cur)
    /\ output[Stem(cur)] = [txt |-> "none", json |-> "none"]

(***************************************************************************)
(* C7.  No error met while scanning or processing ends the poll loop: the  *)
(* worker ends by an interrupt only.                                       *)
(* Refuted: a file that goes between the filter and the sort of            *)
(* get_pending_files makes stat raise, and run_worker does not catch it.   *)
(***************************************************************************)
C7_OnlyInterruptStops == Halted => pc = "stopped"

(***************************************************************************)
(* C8.  A file found larger at the second settle sample than at the first  *)
(* is not handed to the engine and not moved: the visit ends as a skip     *)
(* with the directories and the file as they were.                         *)
(***************************************************************************)
C8_GrowingIsSkipped ==
    [][ ( /\ pc = "r_stat2"
          /\ pc' \notin {"r_stat2", "stopped"}
          /\ Exists(inbox, cur)
          /\ inode[inbox[cur]].size > obs[1] )
          => /\ VisitOver("skipped")'
             /\ UNCHANGED fsVars
      ]_vars

C8_Witness ==
    /\ VisitOver("skipped")
    /\ obs[1] > 0
    /\ obs[2] > obs[1]
    /\ Exists(inbox, cur)
    /\ Writing(inbox[cur])

(***************************************************************************)
(* C9.  is_file_ready answers true exactly when both samples were taken,   *)
(* they are equal, and the size is above zero.                             *)
(***************************************************************************)
C9_ReadyIffStableNonEmpty ==
    (pc = "engine" \/ VisitOver("skipped"))
        => /\ ready <=> ( /\ obs[1] # -1
                          /\ obs[2] # -1
                          /\ obs[1] = obs[2]
                          /\ obs[1] >= 1 )
           /\ ready <=> pc = "engine"

\* an empty file, unchanged over the settle interval, is not ready
C9_Witness == VisitOver("skipped") /\ obs = <<0, 0>> /\ ~ready

(***************************************************************************)
(* C10.  The batch is in ascending order of the modification times read    *)
(* by the sort, its jobs are visited in that order one after the other,    *)
(* and when the batch is a.mp3 then b.wav and both visits end in done,     *)
(* done holds both files and output holds the four artifacts.              *)
(***************************************************************************)
MtimeNow(n) == inode[inbox[n]].mtime

OneAfterTheOther ==
    idx > 0 =>
        \A k \in DOMAIN batch :
            /\ k < idx => batch[k].outcome # "pending"
            /\ k > idx => batch[k].outcome = "pending"
            /\ k = idx => (batch[k].outcome # "pending" <=> pc = "returned")

BothDone ==
    /\ pc = "returned"
    /\ idx = 2
    /\ batch = << [name |-> "a.mp3", outcome |-> "done"],
                  [name |-> "b.wav", outcome |-> "done"] >>

C10_OldestFirst ==
    /\ [][ (pc = "scan_sort" /\ pc' = "p_exists")
             => /\ \A i, j \in DOMAIN batch' :
                      i < j => MtimeNow(batch'[i].name) <= MtimeNow(batch'[j].name)
                /\ {batch'[i].name : i \in DOMAIN batch'} = listing
                /\ idx' = 1
         ]_vars
    /\ [](OneAfterTheOther)
    /\ [](BothDone =>
            /\ Exists(done, "a.mp3")
            /\ Exists(done, "b.wav")
            /\ output["a"] = [txt |-> "a.mp3", json |-> "a.mp3"]
            /\ output["b"] = [txt |-> "b.wav", json |-> "b.wav"])

C10_Witness == BothDone /\ Exists(done, "a.mp3") /\ Exists(done, "b.wav")

(***************************************************************************)
(* get_pending_files on its own: one call after another over an inbox that *)
(* nothing else touches, for every inbox content over ScanNames.           *)
(***************************************************************************)
\* names an inbox may hold: those of Names, one whose extension is written
\* in mixed case, one whose extension is none of AUDIO_EXTENSIONS
ScanNames == Names \cup {"c.Mp3", "n.txt"}

ScanIno(n) ==
    CASE n = "a.mp3" -> 1 [] n = "b.wav" -> 2 [] n = "a.WAV" -> 3
      [] n = "c.Mp3" -> 4 [] n = "n.txt" -> 5

ScanInit ==
    /\ \E present \in SUBSET ScanNames :
          inbox = [n \in ScanNames |->
                      IF n \in present THEN ScanIno(n) ELSE NoFile]
    /\ inode \in [{ScanIno(n) : n \in ScanNames} ->
                     {[size |-> 1, mtime |-> m] : m \in 1..2}]
    /\ done = [n \in ScanNames |-> NoFile]
    /\ failed = [n \in ScanNames |-> NoFile]
    /\ output = [s \in Stems |-> [txt |-> "none", json |-> "none"]]
    /\ prod = [p \in Producers |-> Idle]
    /\ pc = "poll"
    /\ listing = {}
    /\ batch = <<>>
    /\ idx = 0
    /\ obs = <<-1, -1>>
    /\ ready = FALSE
    /\ err = "none"
    /\ written = {}
    /\ budget = [files |-> 0, faults |-> 0]
    /\ call = NoCall

ScanSpec == ScanInit /\ [][Scan]_vars

\* the names get_pending_files has returned, once it has
Returned == {batch[i].name : i \in DOMAIN batch}

\* C11: get_pending_files returns exactly the inbox files whose extension,
\* compared without regard to case, is one of AUDIO_EXTENSIONS: every
\* casing of a recognized extension (lower, upper, mixed) is returned and
\* no file with another extension is.
C11_ReturnsRecognized ==
    pc = "p_exists" =>
        Returned = {n \in DOMAIN inbox : Exists(inbox, n) /\ Recognized(n)}

(***************************************************************************)
(* C12.  An interrupt stops the worker only at a job boundary: a job whose *)
(* processing has begun (the engine call entered) still completes its      *)
(* visit, so the interrupt leaves no job with output written and its file  *)
(* still in inbox, and none with only one of its two output files.  The    *)
(* artifacts are written and the file moved only at the positions of       *)
(* InVisit, so a stop outside them leaves neither.                         *)
(***************************************************************************)
InVisit == pc \in {"engine", "save_txt", "save_json", "done_move", "fail_move"}

C12_StopsAtJobBoundary ==
    [][ (pc # "stopped" /\ pc' = "stopped") => ~InVisit ]_vars

(***************************************************************************)
(* Two invocations of enqueue.py at once.  The check of line 32 and the    *)
(* open inside copy2 (line 36) are two system calls; another producer may  *)
(* run between them.  (EnqOpen is the two taken together, which is all a   *)
(* producer running alone can show.)                                       *)
(***************************************************************************)
RaceProducers == {"p1", "p2"}

\* lines 23-34: the source exists and is a regular file; a name found in
\* inbox is skipped ("Already in queue"); otherwise the copy is decided
EnqCheck(p, s) ==
    /\ prod[p].pc = "idle"
    /\ budget.files > 0
    /\ IF AlreadyQueued(s.name)
         THEN UNCHANGED <<prod, budget>>
         ELSE /\ prod' = [prod EXCEPT ![p] = [pc |-> "open", src |-> s,
                                              ino |-> NoFile, off |-> 0]]
              /\ budget' = [budget EXCEPT !.files = @ - 1]
    /\ UNCHANGED <<call, fsVars, workerVars>>

\* line 36, copyfile's open(dst, "wb"): creates the entry, or truncates the
\* file the name leads to by now
EnqCreate(p) ==
    /\ prod[p].pc = "open"
    /\ LET n == prod[p].src.name
           i == IF Exists(inbox, n) THEN inbox[n] ELSE FreeId
       IN /\ inbox' = [inbox EXCEPT ![n] = i]
          /\ inode' = [inode EXCEPT ![i] = [size |-> 0, mtime |-> NowTime]]
          /\ prod' = [prod EXCEPT ![p].pc = "write", ![p].ino = i]
    /\ UNCHANGED <<call, done, failed, output, workerVars, budget>>

RaceInit ==
    /\ inbox = [n \in Names |-> NoFile]
    /\ done = [n \in Names |-> NoFile]
    /\ failed = [n \in Names |-> NoFile]
    /\ inode = [i \in Ids |-> NewInode]
    /\ output = [s \in Stems |-> [txt |-> "none", json |-> "none"]]
    /\ prod = [p \in RaceProducers |-> Idle]
    /\ pc = "poll"
    /\ listing = {}
    /\ batch = <<>>
    /\ idx = 0
    /\ obs = <<-1, -1>>
    /\ ready = FALSE
    /\ err = "none"
    /\ written = {}
    /\ budget = [files |-> MaxFiles, faults |-> 0]
    /\ call = NoCall

RaceNext ==
    \E p \in RaceProducers :
        \/ \E s \in Sources : EnqCheck(p, s)
        \/ EnqCreate(p)
        \/ EnqWrite(p)
        \/ EnqStat(p)

RaceSpec == RaceInit /\ [][RaceNext]_vars

\* C13: enqueue_files never overwrites or alters a file already in inbox
\* under the name of its source, also when two producers enqueue the same
\* name at once: a producer opens its destination for writing only when
\* inbox holds no file of that name.
C13_NeverOverwrites ==
    [][ \A p \in RaceProducers :
            (prod[p].pc = "open" /\ prod'[p].pc = "write")
                => ~Exists(inbox, prod[p].src.name) ]_vars

(***************************************************************************)
(* save_result on its own: called again and again with the same audio path *)
(* and the same engine result, over an output/ whose files are kept as     *)
(* the text they hold.                                                     *)
(***************************************************************************)
\* longest transcript text, in characters
MaxText == 3
\* calls of save_result in a run of WriterSpec
MaxRuns == 2

\* whitespace, as str.strip() takes it, and the characters of a transcript
White == {" ", "\n", "\t"}
Chars == {" ", "\n", "x"}
Texts == UNION {[1..k -> Chars] : k \in 0..MaxText}

\* line 81, str.strip(): s without its leading and trailing whitespace
Strip(s) ==
    LET keep == {i \in DOMAIN s : s[i] \notin White}
    IN IF keep = {}
         THEN <<>>
         ELSE SubSeq(s, CHOOSE i \in keep : \A j \in keep : i <= j,
                        CHOOSE i \in keep : \A j \in keep : i >= j)

\* what transcribe_file returns, as far as save_result reads it
Results == {[text |-> t, language |-> "en", segments |-> <<>>] : t \in Texts}

\* a file of output/ that is there already is left as it is
WriteFileKeepsOld(files, f, content) ==
    [g \in DOMAIN files \cup {f} |-> IF g \in DOMAIN files THEN files[g] ELSE content]

\* lines 81 and 84-85, write_text and open(path, "w"): the file is created
\* or its content replaced
WriteFile(files, f, content) ==
    [g \in DOMAIN files \cup {f} |-> IF g = f THEN content ELSE files[g]]

\* lines 75-94
SaveResult(files, name, result, now) ==
    LET output_base == Stem(name)
        txt == WriteFile(files, <<output_base, "txt">>, Strip(result.text))
    IN WriteFile(txt, <<output_base, "json">>,
                 [text |-> result.text,
                  language |-> result.language,
                  segments |-> result.segments,
                  source_file |-> name,
                  processed_at |-> now])

\* output/ is empty, or holds a transcript left by an earlier job of the stem
WriterInit ==
    /\ inbox = [n \in Names |-> NoFile]
    /\ done = [n \in Names |-> NoFile]
    /\ failed = [n \in Names |-> NoFile]
    /\ inode = [i \in Ids |-> NewInode]
    /\ output = [s \in Stems |-> [txt |-> "none", json |-> "none"]]
    /\ prod = [p \in Producers |-> Idle]
    /\ pc = "poll"
    /\ listing = {}
    /\ batch = <<>>
    /\ idx = 0
    /\ obs = <<-1, -1>>
    /\ ready = FALSE
    /\ err = "none"
    /\ written = {}
    /\ budget = [files |-> 0, faults |-> 0]
    /\ \E n \in Names, r \in Results :
         \E old \in { <<>>, [f \in {<<Stem(n), "txt">>} |-> <<"o", "l", "d">>] } :
            call = [runs |-> 0, name |-> n, result |-> r, now |-> 1, files |-> old]

SaveResultCall ==
    /\ call.runs < MaxRuns
    /\ call' = [call EXCEPT
                  !.files = SaveResult(call.files, call.name, call.result, call.now),
                  !.runs = @ + 1,
                  !.now = @ + 1]
    /\ UNCHANGED <<fsVars, prod, workerVars, budget>>

WriterSpec == WriterInit /\ [][SaveResultCall]_vars

\* C14: save_result run twice for the same job name and the same engine
\* result leaves output/<stem>.txt the same, character for character: it is
\* the transcript text without its leading and trailing whitespace after
\* each run, and the second run replaces the file of the first and adds no
\* file to output/.
C14_SameTextTwice ==
    [][ call'.runs = call.runs + 1 =>
          LET txt == <<Stem(call.name), "txt">>
          IN /\ call'.files[txt] = Strip(call.result.text)
             /\ call.runs >= 1 =>
                   /\ call'.files[txt] = call.files[txt]
                   /\ DOMAIN call'.files = DOMAIN call.files ]_vars

\* a second run is over, of a text that had whitespace to trim around words
C14_Witness ==
    /\ call.runs >= 2
    /\ Strip(call.result.text) # call.result.text
    /\ Strip(call.result.text) # <<>>
    /\ call.files[<<Stem(call.name), "txt">>] = Strip(call.result.text)

(***************************************************************************)
(* C15.  When the processing of a job has failed and the move into failed/ *)
(* fails too, the file stays in inbox and the visit ends; the engine is    *)
(* not called for that job again while the batch lasts; the jobs after it  *)
(* in the batch are visited; and the next poll lists the job again, as it  *)
(* lists every matched file of inbox.                                      *)
(***************************************************************************)
\* the step of process_file in which the move into failed/ raises
MoveIntoFailedFails ==
    /\ pc = "fail_move"
    /\ pc' \notin {"fail_move", "stopped"}
    /\ Exists(inbox, cur)
    /\ inbox' = inbox

C15_StuckStaysQueued ==
    [][ /\ MoveIntoFailedFails =>
            /\ VisitOver("stuck")'
            /\ UNCHANGED fsVars
        /\ \A i \in DOMAIN batch :
              (batch[i].outcome = "stuck" /\ batch' # <<>>) =>
                  /\ batch'[i].outcome = "stuck"
                  /\ pc' = "engine" => batch'[idx'].name # batch[i].name
        /\ (VisitOver("stuck") /\ pc' \notin {"returned", "stopped"}) =>
              IF idx < Len(batch)
                THEN pc' = "p_exists" /\ idx' = idx + 1 /\ batch' = batch
                ELSE pc' = "poll"
        /\ (pc = "poll" /\ pc' = "scan_filter") =>
              \A n \in Names : Exists(inbox, n) /\ Globbed(n) => n \in listing'
      ]_vars

\* the move into failed/ has failed for a job that is not the batch's last
C15_Witness ==
    /\ VisitOver("stuck")
    /\ Exists(inbox, cur)
    /\ idx < Len(batch)

(***************************************************************************)
(* C16.  If another process removes an inbox file at any point while       *)
(* get_pending_files runs (between the listing, the exists filter and the  *)
(* sort by modification time), the scan still returns, with the entry that *)
(* vanished left out, and the poll loop goes on.                           *)
(***************************************************************************)
C16_ScanSurvivesRemoval ==
    [][ (pc \in {"scan_filter", "scan_sort"} /\ pc' \notin {pc, "stopped"}) =>
           /\ pc' \in {"scan_sort", "poll", "p_exists"}
           /\ pc' = "p_exists" =>
                 {batch'[i].name : i \in DOMAIN batch'}
                     = {n \in listing : Exists(inbox, n)} ]_vars

(***************************************************************************)
(* C17.  When process_file skips a job, because its file has vanished or   *)
(* is_file_ready answers false, the engine is not called and the visit     *)
(* changes nothing in inbox, output, done and failed; a file that was not  *)
(* ready and is still in inbox is listed again by the next scan.           *)
(***************************************************************************)
\* the step in which the visit finds the file gone or not ready
FoundUnfit ==
    /\ pc \in {"p_exists", "r_stat2"}
    /\ pc' \notin {pc, "r_stat2", "stopped"}
    /\ ~ready'

C17_SkipChangesNothing ==
    [][ /\ FoundUnfit =>
            /\ VisitOver("skipped")'
            /\ written' = {} /\ err' = "none"
            /\ UNCHANGED fsVars
        /\ (pc = "p_exists" /\ pc' = "r_stat2") => UNCHANGED fsVars
        /\ (pc = "poll" /\ pc' = "scan_filter") =>
              listing' = {n \in Names : Exists(inbox, n) /\ Globbed(n)}
      ]_vars

\* a visit has ended as a skip: of a file found gone, or of one that is
\* still in inbox and whose two sizes were read
C17_Witness ==
    /\ VisitOver("skipped")
    /\ ~ready
    /\ written = {}
    /\ ~Exists(inbox, cur) \/ obs[2] >= 0

(***************************************************************************)
(* C18.  With a producer running concurrently a job becomes visible in     *)
(* inbox only once fully written: no scan of get_pending_files lists,      *)
(* under its final name, a file whose copy is still going on.              *)
(* This fails: copy2 writes the file in place under its final name.        *)
(***************************************************************************)
C18_VisibleOnlyComplete ==
    [][ (pc = "poll" /\ pc' = "scan_filter") =>
            \A n \in listing' : ~Writing(inbox[n]) ]_vars

\* C18 as the code has it: a scan may list a file whose copy is still going
\* on, and process_file hands a file to the engine only when the size
\* is_file_ready reads after the settle interval is the size it read
\* before, and is not zero.
C18_HandedOverOnlyIfSettled ==
    [][ (pc # "engine" /\ pc' = "engine") =>
            /\ pc = "r_stat2"
            /\ Exists(inbox, cur)
            /\ obs[1] > 0
            /\ inode[inbox[cur]].size = obs[1]
            /\ UNCHANGED <<idx, batch>> ]_vars

\* a file listed while its copy was going on has reached the engine: the
\* copy stood still over the settle interval
C18_Witness ==
    /\ pc = "engine"
    /\ Exists(inbox, cur)
    /\ Writing(inbox[cur])
    /\ obs[1] = obs[2]

(***************************************************************************)
(* C19.  After any sequence of successful visits every job in done has its *)
(* own record in output, output/<stem>.json naming that job as its         *)
(* source_file: the artifacts written for one job are never replaced by    *)
(* those of a job of another name (a.mp3 and a.WAV share the stem a).      *)
(***************************************************************************)
C19_OwnRecord ==
    [][ \A s \in Stems :
            (output[s].json \in Names /\ output'[s].json \in Names)
                => output'[s].json = output[s].json ]_vars

\* C19 as the code has it: the artifacts are kept by stem.  Only the visit
\* of a job of stem s writes output/s.*, jobs of other names with that stem
\* included; and as long as no write or move has failed and no file was
\* removed by others, every job in done has under its stem a transcript and
\* a record whose source_file is a job of that stem (the one saved last).
C19_RecordOfStem ==
    /\ [][ \A s \in Stems :
              output'[s] # output[s] =>
                  pc \in {"save_txt", "save_json"} /\ Stem(cur) = s ]_vars
    /\ [](budget.faults = MaxFaults =>
            \A n \in Names :
                Exists(done, n) =>
                    LET r == output[Stem(n)]
                    IN /\ r.txt \in Names /\ r.json \in Names
                       /\ Stem(r.txt) = Stem(n) /\ Stem(r.json) = Stem(n))

\* two jobs of one stem are in done, the record names the other of the two
C19_Witness ==
    \E n, m \in Names :
        /\ n # m /\ Stem(n) = Stem(m)
        /\ Exists(done, n) /\ Exists(done, m)
        /\ output[Stem(n)] = [txt |-> m, json |-> m]
        /\ budget.faults = MaxFaults

(***************************************************************************)
(* C20.  Whenever the worker is between jobs, output/<stem>.txt exists if  *)
(* and only if output/<stem>.json exists, for every stem, whatever         *)
(* failures of the writer came before.                                     *)
(***************************************************************************)
BetweenJobs == pc \in {"poll", "scan_filter", "scan_sort", "returned"}

C20_TxtIffJson ==
    BetweenJobs =>
        \A s \in Stems : output[s].txt # "none" <=> output[s].json # "none"

=============================================================================
